---- MODULE Spec2Model ----
(***************************************************************************)
(* Energy readings pipeline: the ingestion producer, the Redis stream with *)
(* its consumer group, the processing service's background consumer        *)
(* (consume_stream / process_reading) and the per-site sorted sets.        *)
(*                                                                         *)
(* Python values are represented as follows.                               *)
(*   - a dict is a function from the keys it holds to their values;        *)
(*   - a decimal string is [int |-> i, frac |-> <<digits>>], any other     *)
(*     power string is [raw |-> text]; a float is a number of hundredths;  *)
(*   - an ISO-8601 string is [date |-> <<y,m,d>>, time |-> <<h,mi,s>>,     *)
(*     tz |-> suffix], any other timestamp string is [raw |-> text];       *)
(*   - a stream entry id is the entry's position in the stream.            *)
(***************************************************************************)
EXTENDS Integers, Sequences, FiniteSets, TLC

\* ------------------------------------------------------------------------
\* Bounds of the model
\* ------------------------------------------------------------------------
MaxMsgs == 2
MaxDeliveries == 3

\* Program constants
COUNT == 10
BACKOFF_CONNECTION == 5
BACKOFF_OTHER == 1

Consumers == {"processor-1", "processor-2"}

\* callers of the two HTTP APIs
Clients == {"client-1", "client-2"}

\* ------------------------------------------------------------------------
\* State
\* ------------------------------------------------------------------------
VARIABLES
    stream,         \* the entries of REDIS_STREAM; an entry's id is its index
    streamExists,   \* whether the stream key exists
    groupExists,    \* whether CONSUMER_GROUP exists on the stream
    lastDelivered,  \* the group's last-delivered id
    pel,            \* the group's pending entries: id -> [consumer, delivery_count]
    zsets,          \* the sorted sets: key -> set of [member, score]
    app,            \* per service instance: lifespan phase
    pc,             \* per service instance: where its consume_stream task is
    batch,          \* per service instance: the claimed messages still to handle
    delay,          \* per service instance: seconds of the current asyncio.sleep
    caught,         \* per service instance: the exception the loop's handler holds
    calls,          \* per service instance: what the task did for each message id
    http            \* per HTTP client: its last request and the response it got

vars == <<stream, streamExists, groupExists, lastDelivered, pel, zsets,
          app, pc, batch, delay, caught, calls, http>>

redisVars == <<stream, streamExists, groupExists, lastDelivered, pel, zsets>>

\* ------------------------------------------------------------------------
\* Python values
\* ------------------------------------------------------------------------
None == "null"
NoneTs == [none |-> TRUE]

Get(data, k, default) == IF k \in DOMAIN data THEN data[k] ELSE default

Dec(i, f) == [int |-> i, frac |-> f]
Iso(d, t, z) == [date |-> d, time |-> t, tz |-> z]
Raw(s) == [raw |-> s]

\* the int 0 that data.get("power_reading", 0) defaults to
IntZero == [pyint |-> 0]

\* (mutant) data["power_reading"] instead of .get: a missing field raises too
FloatRaises_when_missing(x) == "raw" \in DOMAIN x \/ "pyint" \in DOMAIN x

\* float(x): x is the int 0 or a string; a non-decimal string raises ValueError
FloatRaises(x) == "raw" \in DOMAIN x

RECURSIVE FracValue(_, _)
FracValue(f, scale) ==
    IF f = <<>> \/ scale = 0 THEN 0
    ELSE Head(f) * scale + FracValue(Tail(f), scale \div 10)

Float(x) ==
    IF "pyint" \in DOMAIN x THEN x.pyint * 100
    ELSE x.int * 100 + FracValue(x.frac, 10)

\* datetime: days from 1970-01-01 of a proleptic Gregorian date
DaysFromCivil(y0, m, d) ==
    LET y   == IF m <= 2 THEN y0 - 1 ELSE y0
        era == y \div 400
        yoe == y - era * 400
        mp  == IF m > 2 THEN m - 3 ELSE m + 9
        doy == (153 * mp + 2) \div 5 + d - 1
        doe == yoe * 365 + yoe \div 4 - yoe \div 100 + doy
    IN  era * 146097 + doe - 719468

\* ts.replace("Z", "+00:00") followed by the offset fromisoformat reads
UtcOffsetSeconds(tz) ==
    LET replaced == IF tz = "Z" THEN "+00:00" ELSE tz
    IN  CASE replaced = "+00:00" -> 0
          [] replaced = "+01:00" -> 3600
          [] replaced = "-01:00" -> -3600

IsIso(ts) == "date" \in DOMAIN ts

\* (mutant) no replace("Z", "+00:00"): a "Z" suffix fails to parse
timestamp_to_score_without_replace(ts) ==
    IF IsIso(ts) /\ ts.tz # "Z"
    THEN DaysFromCivil(ts.date[1], ts.date[2], ts.date[3]) * 86400
         + ts.time[1] * 3600 + ts.time[2] * 60 + ts.time[3]
         - UtcOffsetSeconds(ts.tz)
    ELSE 0

timestamp_to_score(ts) ==
    IF IsIso(ts)
    THEN DaysFromCivil(ts.date[1], ts.date[2], ts.date[3]) * 86400
         + ts.time[1] * 3600 + ts.time[2] * 60 + ts.time[3]
         - UtcOffsetSeconds(ts.tz)
    ELSE 0

\* ------------------------------------------------------------------------
\* process_reading, as far as it is a function of its arguments
\* ------------------------------------------------------------------------
RedisKey(site_id) == <<"site:", site_id, ":readings">>

\* (mutant) only a missing site_id is skipped, an empty one is stored
SkipsStorage_missing_only(data) == "site_id" \notin DOMAIN data

SkipsStorage(data) ==
    LET site_id == Get(data, "site_id", None)
    IN  site_id = None \/ site_id = ""

ReadingOf(stream_id, data) ==
    [stream_id     |-> stream_id,
     site_id       |-> Get(data, "site_id", None),
     device_id     |-> Get(data, "device_id", None),
     power_reading |-> Float(Get(data, "power_reading", IntZero)),
     timestamp     |-> Get(data, "timestamp", NoneTs),
     ingested_at   |-> Get(data, "ingested_at", None)]

\* (mutant) the stored record is stamped with a value that differs from one
\* processing to the next (a processing time, an attempt counter)
json_dumps_stamped(r) ==
    << <<"stream_id", r.stream_id>>, <<"site_id", r.site_id>>,
       <<"device_id", r.device_id>>, <<"power_reading", r.power_reading>>,
       <<"timestamp", r.timestamp>>, <<"ingested_at", r.ingested_at>>,
       <<"processed_at", calls>> >>

\* json.dumps / json.loads of a reading: the key/value pairs in dict order
json_dumps(r) ==
    << <<"stream_id", r.stream_id>>, <<"site_id", r.site_id>>,
       <<"device_id", r.device_id>>, <<"power_reading", r.power_reading>>,
       <<"timestamp", r.timestamp>>, <<"ingested_at", r.ingested_at>> >>

json_loads(m) ==
    [stream_id |-> m[1][2], site_id |-> m[2][2], device_id |-> m[3][2],
     power_reading |-> m[4][2], timestamp |-> m[5][2], ingested_at |-> m[6][2]]

\* "raised" (float failed), "skipped" (no site_id) or "stored" with the
\* key, member and score handed to zadd
ProcessOutcome(stream_id, data) ==
    IF SkipsStorage(data) THEN [kind |-> "skipped"]
    ELSE IF FloatRaises(Get(data, "power_reading", IntZero)) THEN [kind |-> "raised"]
    ELSE [kind   |-> "stored",
          key    |-> RedisKey(data.site_id),
          member |-> json_dumps(ReadingOf(stream_id, data)),
          score  |-> timestamp_to_score(Get(data, "timestamp", Raw("")))]

\* ------------------------------------------------------------------------
\* Redis sorted sets
\* ------------------------------------------------------------------------
\* (mutant) the index keeps arrival order: a record is ranked by the number of
\* records the site had when it arrived
ZAdd_by_arrival(z, key, member, score) ==
    [z EXCEPT ![key] = {e \in @ : e.member # member}
                         \cup {[member |-> member, score |-> Cardinality(@)]}]

ZAdd(z, key, member, score) ==
    [z EXCEPT ![key] = {e \in @ : e.member # member}
                         \cup {[member |-> member, score |-> score]}]

EntryLeq(a, b) ==
    \/ a.score < b.score
    \/ a.score = b.score /\ a.member[1][2] <= b.member[1][2]

RECURSIVE SortEntries(_)
SortEntries(S) ==
    IF S = {} THEN <<>>
    ELSE LET first == CHOOSE e \in S : \A o \in S : EntryLeq(e, o)
         IN  <<first>> \o SortEntries(S \ {first})

\* zrange(key, 0, -1): the members in ascending score order
ZRange(z, key) ==
    LET sorted == SortEntries(z[key])
    IN  [i \in 1..Len(sorted) |-> sorted[i].member]

\* GET /sites/{site_id}/readings when zrange returns
get_site_readings(z, site_id) ==
    LET raw_readings == ZRange(z, RedisKey(site_id))
    IN  [site_id  |-> site_id,
         readings |-> [i \in 1..Len(raw_readings) |-> json_loads(raw_readings[i])]]

\* ------------------------------------------------------------------------
\* Messages a producer may append to the stream
\* ------------------------------------------------------------------------
T1030Z   == Iso(<<2024, 1, 15>>, <<10, 30, 0>>, "Z")
T1100Z   == Iso(<<2024, 1, 15>>, <<11, 0, 0>>, "Z")
T1030Utc == Iso(<<2024, 1, 15>>, <<10, 30, 0>>, "+00:00")
IngestedAt == "2024-01-15T10:30:00.123456"

Msg(site, power, ts) ==
    [site_id |-> site, device_id |-> "meter-42", power_reading |-> power,
     timestamp |-> ts, ingested_at |-> IngestedAt]

\* readings as the ingestion API writes them
ValidMessages ==
    { Msg("site-001", Dec(1500, <<5>>), T1100Z),
      Msg("site-001", Dec(2000, <<0>>), T1030Z) }

\* entries the consumer tolerates although the ingestion API never writes them
NoSiteMessages ==
    { Msg("", Dec(1500, <<5>>), T1030Z),
      [device_id |-> "meter-42", power_reading |-> Dec(1500, <<5>>),
       timestamp |-> T1030Z, ingested_at |-> IngestedAt] }

NoPowerMessage ==
    [site_id |-> "site-002", device_id |-> "meter-42",
     timestamp |-> T1030Utc, ingested_at |-> IngestedAt]

BadPowerMessage == Msg("site-001", Raw("abc"), T1030Z)

CleanMessages == ValidMessages \cup NoSiteMessages \cup {NoPowerMessage}
Catalogue == CleanMessages \cup {BadPowerMessage}

SiteIds == {"site-001", "site-002"}
Keys == {RedisKey(s) : s \in SiteIds}

\* outcomes of one Redis call: it returns, or raises redis.ConnectionError, or
\* raises another exception
Faults == {"none", "ConnectionError", "ResponseError"}

\* where the caller treats every exception alike, one raising outcome is kept
CallFaults == {"none", "ConnectionError"}

\* no request made yet
NoExchange == [request |-> <<"none">>, status |-> 0]

Init ==
    /\ stream = <<>>
    /\ streamExists = FALSE
    /\ groupExists = FALSE
    /\ lastDelivered = 0
    /\ pel = <<>>
    /\ zsets = [k \in Keys |-> {}]
    /\ app = [c \in Consumers |-> "init"]
    /\ pc = [c \in Consumers |-> "none"]
    /\ batch = [c \in Consumers |-> <<>>]
    /\ delay = [c \in Consumers |-> 0]
    /\ caught = [c \in Consumers |-> "none"]
    /\ calls = [c \in Consumers |-> <<>>]
    /\ http = [h \in Clients |-> NoExchange]

\* ------------------------------------------------------------------------
\* Redis stream commands
\* ------------------------------------------------------------------------
Min(a, b) == IF a < b THEN a ELSE b

\* XREADGROUP ... ">" count=COUNT: the ids never delivered to the group
NewIds == (lastDelivered + 1) .. Min(Len(stream), lastDelivered + COUNT)

Delivered(ids, c) ==
    [i \in DOMAIN pel \cup ids |->
        IF i \in ids THEN [consumer |-> c, delivery_count |-> 1] ELSE pel[i]]

\* (mutant) the claimed entries are handled last first
BatchOf_reversed(ids) ==
    [k \in 1..Cardinality(ids) |->
        <<lastDelivered + Cardinality(ids) + 1 - k,
          stream[lastDelivered + Cardinality(ids) + 1 - k]>>]

\* the entries XREADGROUP returns, in the order the loops iterate over them
BatchOf(ids) ==
    [k \in 1..Cardinality(ids) |->
        <<lastDelivered + k, stream[lastDelivered + k]>>]

\* (mutant) the acknowledge names another group: nothing leaves the list
Acked_other_group(id) == pel

\* (mutant) the acknowledge is cumulative: every entry up to the id leaves
Acked_through(id) == [i \in {j \in DOMAIN pel : j > id} |-> pel[i]]

\* XACK: the id leaves the pending entries list
Acked(id) == [i \in DOMAIN pel \ {id} |-> pel[i]]

\* ------------------------------------------------------------------------
\* Producer (ingestion API): redis_client.xadd
\* ------------------------------------------------------------------------
xadd(data) ==
    /\ Len(stream) < MaxMsgs
    /\ stream' = Append(stream, data)
    /\ streamExists' = TRUE
    /\ UNCHANGED <<groupExists, lastDelivered, pel, zsets,
                   app, pc, batch, delay, caught, calls>>
    /\ UNCHANGED http

\* ------------------------------------------------------------------------
\* Processing service
\* ------------------------------------------------------------------------
\* lifespan up to its yield: the task is created, the app starts serving
lifespan_startup(c) ==
    /\ app[c] = "init"
    /\ app' = [app EXCEPT ![c] = "serving"]
    /\ pc' = [pc EXCEPT ![c] = "created"]
    /\ UNCHANGED <<redisVars, batch, delay, caught, calls>>
    /\ UNCHANGED http

\* (mutant) the group is created at id="$": only later entries are delivered
ensure_consumer_group_at_end(c, fault) ==
    /\ pc[c] = "created"
    /\ IF fault = "none"
       THEN /\ pc' = [pc EXCEPT ![c] = "loop"]
            /\ IF groupExists
               THEN UNCHANGED <<streamExists, groupExists, lastDelivered, pel>>
               ELSE /\ streamExists' = TRUE
                    /\ groupExists' = TRUE
                    /\ lastDelivered' = Len(stream)
                    /\ pel' = <<>>
       ELSE /\ pc' = [pc EXCEPT ![c] = "failed"]
            /\ UNCHANGED <<streamExists, groupExists, lastDelivered, pel>>
    /\ UNCHANGED <<stream, zsets, app, batch, delay, caught, calls>>
    /\ UNCHANGED http

\* consume_stream up to the loop: ensure_consumer_group
ensure_consumer_group(c, fault) ==
    /\ pc[c] = "created"
    /\ IF fault = "none"
       THEN /\ pc' = [pc EXCEPT ![c] = "loop"]
            /\ IF groupExists
               THEN UNCHANGED <<streamExists, groupExists, lastDelivered, pel>>
               ELSE /\ streamExists' = TRUE
                    /\ groupExists' = TRUE
                    /\ lastDelivered' = 0
                    /\ pel' = <<>>
       ELSE /\ pc' = [pc EXCEPT ![c] = "failed"]
            /\ UNCHANGED <<streamExists, groupExists, lastDelivered, pel>>
    /\ UNCHANGED <<stream, zsets, app, batch, delay, caught, calls>>
    /\ UNCHANGED http

\* top of `while True`: the xreadgroup call is handed to a thread and awaited
claim_start(c) ==
    /\ pc[c] = "loop"
    /\ pc' = [pc EXCEPT ![c] = "claiming"]
    /\ UNCHANGED <<redisVars, app, batch, delay, caught, calls>>
    /\ UNCHANGED http

Call(op, id, ok) == [op |-> op, id |-> id, ok |-> ok]

\* (mutant) only redis.ConnectionError is caught: another exception ends the task
xreadgroup_return_uncaught(c, fault) ==
    /\ pc[c] = "claiming"
    /\ IF fault = "ConnectionError"
       THEN /\ pc' = [pc EXCEPT ![c] = "sleep"]
            /\ caught' = [caught EXCEPT ![c] = "ConnectionError"]
            /\ delay' = [delay EXCEPT ![c] = BACKOFF_CONNECTION]
            /\ UNCHANGED <<lastDelivered, pel, batch, calls>>
       ELSE IF fault = "ResponseError" \/ ~groupExists
       THEN /\ pc' = [pc EXCEPT ![c] = "failed"]
            /\ UNCHANGED <<lastDelivered, pel, batch, calls, delay, caught>>
       ELSE /\ pel' = Delivered(NewIds, c)
            /\ lastDelivered' = lastDelivered + Cardinality(NewIds)
            /\ batch' = [batch EXCEPT ![c] = BatchOf(NewIds)]
            /\ pc' = [pc EXCEPT ![c] = IF NewIds = {} THEN "loop" ELSE "process"]
            /\ UNCHANGED <<delay, caught, calls>>
    /\ UNCHANGED <<stream, streamExists, groupExists, zsets, app>>
    /\ UNCHANGED http

\* the awaited xreadgroup returns or raises
xreadgroup_return(c, fault) ==
    /\ pc[c] = "claiming"
    /\ IF fault = "ConnectionError"
       THEN /\ pc' = [pc EXCEPT ![c] = "sleep"]
            /\ caught' = [caught EXCEPT ![c] = "ConnectionError"]
            /\ delay' = [delay EXCEPT ![c] = BACKOFF_CONNECTION]
            /\ UNCHANGED <<lastDelivered, pel, batch, calls>>
       ELSE IF fault = "ResponseError" \/ ~groupExists
       THEN /\ pc' = [pc EXCEPT ![c] = "sleep"]
            /\ caught' = [caught EXCEPT ![c] = "ResponseError"]
            /\ delay' = [delay EXCEPT ![c] = BACKOFF_OTHER]
            /\ UNCHANGED <<lastDelivered, pel, batch, calls>>
       ELSE /\ pel' = Delivered(NewIds, c)
            /\ lastDelivered' = lastDelivered + Cardinality(NewIds)
            /\ batch' = [batch EXCEPT ![c] = BatchOf(NewIds)]
            /\ pc' = [pc EXCEPT ![c] = IF NewIds = {} THEN "loop" ELSE "process"]
            /\ UNCHANGED <<delay, caught, calls>>
    /\ UNCHANGED <<stream, streamExists, groupExists, zsets, app>>
    /\ UNCHANGED http


AfterMessage(c) == IF Len(batch[c]) > 1 THEN "process" ELSE "loop"

\* (mutant) the message is acknowledged before it is processed
process_reading_after_xack(c, fault) ==
    /\ pc[c] = "process"
    /\ LET stream_id == batch[c][1][1]
           data      == batch[c][1][2]
           out       == ProcessOutcome(stream_id, data)
           acked     == Append(calls[c], Call("xack", stream_id, TRUE))
       IN  /\ pel' = Acked(stream_id)
           /\ CASE out.kind = "skipped" ->
                  /\ fault = "none"
                  /\ calls' = [calls EXCEPT ![c] = acked]
                  /\ UNCHANGED zsets
             [] out.kind = "raised" ->
                  /\ fault = "none"
                  /\ calls' = [calls EXCEPT ![c] = Append(acked, Call("float", stream_id, FALSE))]
                  /\ UNCHANGED zsets
             [] out.kind = "stored" /\ fault = "none" ->
                  /\ zsets' = ZAdd(zsets, out.key, out.member, out.score)
                  /\ calls' = [calls EXCEPT ![c] = Append(acked, Call("zadd", stream_id, TRUE))]
             [] out.kind = "stored" /\ fault # "none" ->
                  /\ calls' = [calls EXCEPT ![c] = Append(acked, Call("zadd", stream_id, FALSE))]
                  /\ UNCHANGED zsets
    /\ batch' = [batch EXCEPT ![c] = Tail(@)]
    /\ pc' = [pc EXCEPT ![c] = AfterMessage(c)]
    /\ UNCHANGED <<stream, streamExists, groupExists, lastDelivered,
                   app, delay, caught>>
    /\ UNCHANGED http

\* (mutant) the acknowledge sits in a `finally`: a failed store is acknowledged too
process_reading_xack_finally(c, fault) ==
    /\ pc[c] = "process"
    /\ LET stream_id == batch[c][1][1]
           data      == batch[c][1][2]
           out       == ProcessOutcome(stream_id, data)
       IN  CASE out.kind = "skipped" ->
                  /\ fault = "none"
                  /\ pc' = [pc EXCEPT ![c] = "ack"]
                  /\ UNCHANGED <<zsets, batch, calls, pel>>
             [] out.kind = "raised" ->
                  /\ fault = "none"
                  /\ calls' = [calls EXCEPT ![c] =
                        @ \o << Call("float", stream_id, FALSE), Call("xack", stream_id, TRUE) >>]
                  /\ pel' = Acked(stream_id)
                  /\ batch' = [batch EXCEPT ![c] = Tail(@)]
                  /\ pc' = [pc EXCEPT ![c] = AfterMessage(c)]
                  /\ UNCHANGED zsets
             [] out.kind = "stored" /\ fault = "none" ->
                  /\ zsets' = ZAdd(zsets, out.key, out.member, out.score)
                  /\ calls' = [calls EXCEPT ![c] = Append(@, Call("zadd", stream_id, TRUE))]
                  /\ pc' = [pc EXCEPT ![c] = "ack"]
                  /\ UNCHANGED <<batch, pel>>
             [] out.kind = "stored" /\ fault # "none" ->
                  /\ calls' = [calls EXCEPT ![c] =
                        @ \o << Call("zadd", stream_id, FALSE), Call("xack", stream_id, TRUE) >>]
                  /\ pel' = Acked(stream_id)
                  /\ batch' = [batch EXCEPT ![c] = Tail(@)]
                  /\ pc' = [pc EXCEPT ![c] = AfterMessage(c)]
                  /\ UNCHANGED zsets
    /\ UNCHANGED <<stream, streamExists, groupExists, lastDelivered,
                   app, delay, caught>>
    /\ UNCHANGED http

\* (mutant) no try/except around one message: its exception reaches the
\* loop's handler, which drops the rest of the batch and backs off
process_reading_escalating(c, fault) ==
    /\ pc[c] = "process"
    /\ LET stream_id == batch[c][1][1]
           data      == batch[c][1][2]
           out       == ProcessOutcome(stream_id, data)
       IN  CASE out.kind = "skipped" ->
                  /\ fault = "none"
                  /\ pc' = [pc EXCEPT ![c] = "ack"]
                  /\ UNCHANGED <<zsets, batch, calls, delay, caught>>
             [] out.kind = "raised" ->
                  /\ fault = "none"
                  /\ calls' = [calls EXCEPT ![c] = Append(@, Call("float", stream_id, FALSE))]
                  /\ batch' = [batch EXCEPT ![c] = <<>>]
                  /\ pc' = [pc EXCEPT ![c] = "sleep"]
                  /\ caught' = [caught EXCEPT ![c] = "ResponseError"]
                  /\ delay' = [delay EXCEPT ![c] = BACKOFF_OTHER]
                  /\ UNCHANGED zsets
             [] out.kind = "stored" /\ fault = "none" ->
                  /\ zsets' = ZAdd(zsets, out.key, out.member, out.score)
                  /\ calls' = [calls EXCEPT ![c] = Append(@, Call("zadd", stream_id, TRUE))]
                  /\ pc' = [pc EXCEPT ![c] = "ack"]
                  /\ UNCHANGED <<batch, delay, caught>>
             [] out.kind = "stored" /\ fault # "none" ->
                  /\ calls' = [calls EXCEPT ![c] = Append(@, Call("zadd", stream_id, FALSE))]
                  /\ batch' = [batch EXCEPT ![c] = <<>>]
                  /\ pc' = [pc EXCEPT ![c] = "sleep"]
                  /\ caught' = [caught EXCEPT ![c] = "ConnectionError"]
                  /\ delay' = [delay EXCEPT ![c] = BACKOFF_CONNECTION]
                  /\ UNCHANGED zsets
    /\ UNCHANGED <<stream, streamExists, groupExists, lastDelivered, pel, app>>
    /\ UNCHANGED http

\* `await process_reading(stream_id, data)` for the next message of the batch
process_reading(c, fault) ==
    /\ pc[c] = "process"
    /\ LET stream_id == batch[c][1][1]
           data      == batch[c][1][2]
           out       == ProcessOutcome(stream_id, data)
       IN  CASE out.kind = "skipped" ->
                  /\ fault = "none"
                  /\ pc' = [pc EXCEPT ![c] = "ack"]
                  /\ UNCHANGED <<zsets, batch, calls>>
             [] out.kind = "raised" ->
                  /\ fault = "none"
                  /\ calls' = [calls EXCEPT ![c] = Append(@, Call("float", stream_id, FALSE))]
                  /\ batch' = [batch EXCEPT ![c] = Tail(@)]
                  /\ pc' = [pc EXCEPT ![c] = AfterMessage(c)]
                  /\ UNCHANGED zsets
             [] out.kind = "stored" /\ fault = "none" ->
                  /\ zsets' = ZAdd(zsets, out.key, out.member, out.score)
                  /\ calls' = [calls EXCEPT ![c] = Append(@, Call("zadd", stream_id, TRUE))]
                  /\ pc' = [pc EXCEPT ![c] = "ack"]
                  /\ UNCHANGED batch
             [] out.kind = "stored" /\ fault # "none" ->
                  /\ calls' = [calls EXCEPT ![c] = Append(@, Call("zadd", stream_id, FALSE))]
                  /\ batch' = [batch EXCEPT ![c] = Tail(@)]
                  /\ pc' = [pc EXCEPT ![c] = AfterMessage(c)]
                  /\ UNCHANGED zsets
    /\ UNCHANGED <<stream, streamExists, groupExists, lastDelivered, pel,
                   app, delay, caught>>
    /\ UNCHANGED http

\* redis_client.xack after process_reading returned
xack(c, fault) ==
    /\ pc[c] = "ack"
    /\ LET stream_id == batch[c][1][1]
       IN  /\ pel' = IF fault = "none" THEN Acked(stream_id) ELSE pel
           /\ calls' = [calls EXCEPT ![c] = Append(@, Call("xack", stream_id, fault = "none"))]
    /\ batch' = [batch EXCEPT ![c] = Tail(@)]
    /\ pc' = [pc EXCEPT ![c] = AfterMessage(c)]
    /\ UNCHANGED <<stream, streamExists, groupExists, lastDelivered, zsets,
                   app, delay, caught>>
    /\ UNCHANGED http

\* asyncio.sleep(5) / asyncio.sleep(1) is over
sleep_return(c) ==
    /\ pc[c] = "sleep"
    /\ pc' = [pc EXCEPT ![c] = "loop"]
    /\ delay' = [delay EXCEPT ![c] = 0]
    /\ caught' = [caught EXCEPT ![c] = "none"]
    /\ UNCHANGED <<redisVars, app, batch, calls>>
    /\ UNCHANGED http

\* the points where the task is suspended and the event loop runs other code
Suspended == {"created", "claiming", "sleep"}

\* lifespan after its yield: background_task.cancel() and await. A task
\* cancelled while it awaits to_thread leaves the xreadgroup call running in its
\* thread: the call still returns (its entries become pending for c and the
\* result is dropped) or raises. The thread's call commutes with the steps of
\* every other process, so it is taken together with the cancellation.
lifespan_shutdown(c, fault) ==
    /\ app[c] = "serving"
    /\ pc[c] \in Suspended \cup {"failed"}
    /\ app' = [app EXCEPT ![c] = "stopped"]
    /\ pc' = [pc EXCEPT ![c] = IF pc[c] = "failed" THEN "failed" ELSE "cancelled"]
    /\ delay' = [delay EXCEPT ![c] = 0]
    /\ caught' = [caught EXCEPT ![c] = "none"]
    /\ IF pc[c] = "claiming"
       THEN IF fault = "none" /\ groupExists
            THEN /\ pel' = Delivered(NewIds, c)
                 /\ lastDelivered' = lastDelivered + Cardinality(NewIds)
            ELSE UNCHANGED <<lastDelivered, pel>>
       ELSE /\ fault = "none"
            /\ UNCHANGED <<lastDelivered, pel>>
    /\ UNCHANGED <<stream, streamExists, groupExists, zsets, batch, calls>>
    /\ UNCHANGED http

Next ==
    \/ \E data \in Catalogue : xadd(data)
    \/ \E c \in Consumers : lifespan_startup(c)
    \/ \E c \in Consumers, f \in Faults : ensure_consumer_group(c, f)
    \/ \E c \in Consumers : claim_start(c)
    \/ \E c \in Consumers, f \in Faults : xreadgroup_return(c, f)
    \/ \E c \in Consumers, f \in CallFaults : process_reading(c, f)
    \/ \E c \in Consumers, f \in CallFaults : xack(c, f)
    \/ \E c \in Consumers : sleep_return(c)
    \/ \E c \in Consumers, f \in CallFaults : lifespan_shutdown(c, f)

Spec == Init /\ [][Next]_vars

\* One service instance alone with the producer, with every fault and the
\* shutdown: the setting of the properties of a single consumer's handling.
Solo == {"processor-1"}

NextSolo ==
    \/ \E data \in Catalogue : xadd(data)
    \/ \E c \in Solo : lifespan_startup(c)
    \/ \E c \in Solo, f \in Faults : ensure_consumer_group(c, f)
    \/ \E c \in Solo : claim_start(c)
    \/ \E c \in Solo, f \in Faults : xreadgroup_return(c, f)
    \/ \E c \in Solo, f \in CallFaults : process_reading(c, f)
    \/ \E c \in Solo, f \in CallFaults : xack(c, f)
    \/ \E c \in Solo : sleep_return(c)
    \/ \E c \in Solo, f \in CallFaults : lifespan_shutdown(c, f)

SpecSolo == Init /\ [][NextSolo]_vars

\* Services that are never shut down and whose claims always return, while the
\* calls made for a message (zadd, xack) may raise and a message may fail to
\* parse: the setting in which a failed message could be claimed again.
TaskRetry(c) ==
    \/ ensure_consumer_group(c, "none")
    \/ claim_start(c)
    \/ xreadgroup_return(c, "none")
    \/ \E f \in CallFaults : process_reading(c, f)
    \/ \E f \in CallFaults : xack(c, f)

NextRetry ==
    \/ \E data \in Catalogue : xadd(data)
    \/ \E c \in Consumers : lifespan_startup(c)
    \/ \E c \in Consumers : ensure_consumer_group(c, "none")
    \/ \E c \in Consumers : claim_start(c)
    \/ \E c \in Consumers : xreadgroup_return(c, "none")
    \/ \E c \in Consumers, f \in CallFaults : process_reading(c, f)
    \/ \E c \in Consumers, f \in CallFaults : xack(c, f)

\* The event loop runs a created task and resumes it when its await is over.
SpecRetry ==
    /\ Init
    /\ [][NextRetry]_vars
    /\ \A c \in Consumers : WF_vars(lifespan_startup(c)) /\ WF_vars(TaskRetry(c))

\* No fault at all: no Redis call raises, every message parses, no shutdown.
TaskNoFault(c) ==
    \/ ensure_consumer_group(c, "none")
    \/ claim_start(c)
    \/ xreadgroup_return(c, "none")
    \/ process_reading(c, "none")
    \/ xack(c, "none")

NextNoFault ==
    \/ \E data \in CleanMessages : xadd(data)
    \/ \E c \in Consumers : lifespan_startup(c)
    \/ \E c \in Consumers : ensure_consumer_group(c, "none")
    \/ \E c \in Consumers : claim_start(c)
    \/ \E c \in Consumers : xreadgroup_return(c, "none")
    \/ \E c \in Consumers : process_reading(c, "none")
    \/ \E c \in Consumers : xack(c, "none")

SpecNoFault ==
    /\ Init
    /\ [][NextNoFault]_vars
    /\ \A c \in Consumers : WF_vars(lifespan_startup(c)) /\ WF_vars(TaskNoFault(c))

\* process_reading and the acknowledge applied to drawn inputs: the task of
\* processor-1 holds a batch of MaxDeliveries deliveries of stream entries, in
\* which the same entry may occur more than once (a redelivery).
Harness == "processor-1"

DrawnBatches(st) ==
    {[k \in 1..MaxDeliveries |-> <<ids[k], st[ids[k]]>>] :
        ids \in [1..MaxDeliveries -> 1..Len(st)]}

InitProcess ==
    /\ stream \in [1..MaxMsgs -> Catalogue]
    /\ streamExists = TRUE
    /\ groupExists = TRUE
    /\ lastDelivered = Len(stream)
    /\ pel = [i \in 1..Len(stream) |-> [consumer |-> Harness, delivery_count |-> 1]]
    /\ zsets = [k \in Keys |-> {}]
    /\ app = [c \in Consumers |-> IF c = Harness THEN "serving" ELSE "init"]
    /\ pc = [c \in Consumers |-> IF c = Harness THEN "process" ELSE "none"]
    /\ \E b \in DrawnBatches(stream) :
          /\ batch = [c \in Consumers |-> IF c = Harness THEN b ELSE <<>>]
          /\ calls = [c \in Consumers |-> <<>>]
    /\ delay = [c \in Consumers |-> 0]
    /\ caught = [c \in Consumers |-> "none"]
    /\ http = [h \in Clients |-> NoExchange]

NextProcess ==
    \/ \E f \in CallFaults : process_reading(Harness, f)
    \/ \E f \in CallFaults : xack(Harness, f)

SpecProcess == InitProcess /\ [][NextProcess]_vars

TypeOK ==
    /\ Len(stream) <= MaxMsgs
    /\ lastDelivered <= Len(stream)
    /\ DOMAIN pel \subseteq 1..lastDelivered
    /\ \A c \in Consumers : pc[c] \in {"none", "created", "loop", "claiming",
            "process", "ack", "sleep", "failed", "cancelled"}

\* ------------------------------------------------------------------------
\* Vocabulary of the properties
\* ------------------------------------------------------------------------
StreamIds == 1..Len(stream)

\* what consumer c did for message id, in order
CallsFor(c, id) == SelectSeq(calls[c], LAMBDA e : e.id = id)

BatchIds(c) == {batch[c][k][1] : k \in 1..Len(batch[c])}

\* the task of c received the message and is through with it
Completed(c, id) == CallsFor(c, id) # <<>> /\ id \notin BatchIds(c)

NoError(c, id) == \A k \in 1..Len(CallsFor(c, id)) : CallsFor(c, id)[k].ok

HasSite(id) == "site_id" \in DOMAIN stream[id] /\ stream[id].site_id # ""

\* the records of message id in the sorted set of a key
RecordsOf(id, key) == {e \in zsets[key] : json_loads(e.member).stream_id = id}

RecordsAnywhere(id) == UNION {RecordsOf(id, k) : k \in Keys}

Pending(id) == id \in DOMAIN pel

Acknowledged(id) == id <= lastDelivered /\ ~Pending(id)

\* C1: a message with a site_id that a consumer handled without any error got
\* exactly one zadd into its own site's sorted set followed by exactly one
\* xack of its id.
C1_StoreThenAck ==
    \A c \in Consumers : \A id \in StreamIds :
        (HasSite(id) /\ Completed(c, id) /\ NoError(c, id)) =>
            /\ CallsFor(c, id) = << Call("zadd", id, TRUE),
                                    Call("xack", id, TRUE) >>
            /\ RecordsAnywhere(id) = RecordsOf(id, RedisKey(stream[id].site_id))
            /\ \A o \in Consumers \ {c} : CallsFor(o, id) = <<>>

C1_Witness ==
    \E c \in Consumers : \E id \in StreamIds :
        /\ HasSite(id) /\ Completed(c, id) /\ NoError(c, id)
        /\ RecordsOf(id, RedisKey(stream[id].site_id)) # {}
        /\ Acknowledged(id)

\* C2: a delivered message with a site_id is either still pending or has its
\* record in its site's sorted set; whatever the faults and wherever the task
\* was cancelled, none is acknowledged without having been stored.
C2_AckedImpliesStored ==
    \A id \in StreamIds :
        (id <= lastDelivered /\ HasSite(id)) =>
            \/ Pending(id)
            \/ RecordsOf(id, RedisKey(stream[id].site_id)) # {}

C2_Witness ==
    /\ \E c \in Consumers : pc[c] = "cancelled"
    /\ \E id \in StreamIds :
          HasSite(id) /\ Acknowledged(id)
          /\ RecordsOf(id, RedisKey(stream[id].site_id)) # {}
    /\ \E id \in StreamIds :
          HasSite(id) /\ Pending(id) /\ RecordsAnywhere(id) = {}

Failed(id) == \E c \in Consumers : Completed(c, id) /\ ~NoError(c, id)

\* message id was handed out a second time (XREADGROUP counts the deliveries
\* of a pending entry)
Redelivered(id) == Pending(id) /\ pel[id].delivery_count >= 2

\* C3: a message whose processing failed (the store or the acknowledge raised)
\* stays pending and is delivered again by a later claim.
C3_FailedIsRedelivered ==
    \A id \in 1..MaxMsgs :
        /\ [](Failed(id) => Pending(id))
        /\ (Failed(id) ~> Redelivered(id))

\* the part of C3 that the consumer does keep: a failed message is not
\* acknowledged and stays in the pending entries list
C3_FailedStaysPending == \A id \in StreamIds : Failed(id) => Pending(id)

\* the number a decimal string denotes, in hundredths (two decimals at most)
Hundredths(dec) ==
    dec.int * 100
    + (IF Len(dec.frac) >= 1 THEN dec.frac[1] * 10 ELSE 0)
    + (IF Len(dec.frac) >= 2 THEN dec.frac[2] ELSE 0)

PowerValue(data) ==
    IF "power_reading" \in DOMAIN data THEN Hundredths(data.power_reading) ELSE 0

\* message id is through: acknowledged and, if it names a site, held exactly
\* once, with its power value, by the sorted set site:{site_id}:readings
Settled(id) ==
    /\ id \in StreamIds
    /\ Acknowledged(id)
    /\ HasSite(id) =>
          /\ Cardinality(RecordsOf(id, <<"site:", stream[id].site_id, ":readings">>)) = 1
          /\ \A e \in RecordsAnywhere(id) :
                json_loads(e.member).power_reading = PowerValue(stream[id])

AllSettled == (\A id \in StreamIds : Settled(id)) /\ pel = <<>>

\* C10: without faults and with consumers that keep running, every message
\* appended to the stream is eventually claimed, stored once (if it names a
\* site) and acknowledged, and the pending entries list ends up empty: from
\* some point on every message of the stream is settled.
C10_EventuallySettled == <>[]AllSettled

C10_Witness ==
    /\ Len(stream) = MaxMsgs
    /\ AllSettled
    /\ \E id \in StreamIds : HasSite(id)

\* a zadd or xack for message id raised at consumer c
RedisFault(c, id) ==
    \E k \in 1..Len(calls[c]) :
        calls[c][k].id = id /\ calls[c][k].op \in {"zadd", "xack"} /\ ~calls[c][k].ok

\* C5: a message without site_id (absent or empty) is skipped and still
\* acknowledged: process_reading makes no zadd and raises nothing, the
\* consumer issues the xack, and the message leaves the pending entries list
\* (unless that xack call itself raises).
C5_NoSiteSkippedAndAcked ==
    \A c \in Consumers : \A id \in StreamIds :
        (~HasSite(id) /\ Completed(c, id)) =>
            /\ RecordsAnywhere(id) = {}
            /\ \E ok \in BOOLEAN :
                  CallsFor(c, id) = << Call("xack", id, ok) >>
            /\ ~RedisFault(c, id) => Acknowledged(id)

C5_Witness ==
    /\ \E c \in Consumers : \E id \in StreamIds :
          /\ "site_id" \notin DOMAIN stream[id]
          /\ Completed(c, id) /\ Acknowledged(id)
    /\ \E c \in Consumers : \E id \in StreamIds :
          /\ "site_id" \in DOMAIN stream[id] /\ stream[id].site_id = ""
          /\ Completed(c, id) /\ Acknowledged(id)

PowerMissing(id) == "power_reading" \notin DOMAIN stream[id]

PowerUnparseable(id) ==
    "power_reading" \in DOMAIN stream[id] /\ "raw" \in DOMAIN stream[id].power_reading

StoredWithPowerZero(id) ==
    /\ RecordsOf(id, <<"site:", stream[id].site_id, ":readings">>) # {}
    /\ \A e \in RecordsAnywhere(id) : json_loads(e.member).power_reading = 0

OffsetOf(tz) ==
    CASE tz = "Z" -> 0 [] tz = "+00:00" -> 0 [] tz = "+01:00" -> 3600 [] tz = "-01:00" -> -3600

UtcFields(ts) ==
    << ts.date[1], ts.date[2], ts.date[3],
       ts.time[1] * 3600 + ts.time[2] * 60 + ts.time[3] - OffsetOf(ts.tz) >>

RECURSIVE LexLess(_, _)
LexLess(a, b) ==
    /\ a # <<>>
    /\ \/ Head(a) < Head(b)
       \/ Head(a) = Head(b) /\ LexLess(Tail(a), Tail(b))

\* event time a is strictly before event time b
Earlier(a, b) == IsIso(a) /\ IsIso(b) /\ LexLess(UtcFields(a), UtcFields(b))

\* C7: the site-history query lists a site's records in ascending event time:
\* no record is listed before one with a strictly earlier event time.
C7_HistoryInTimeOrder ==
    \A site \in SiteIds :
        LET readings == get_site_readings(zsets, site).readings
        IN  \A i, j \in 1..Len(readings) :
                i < j => ~Earlier(readings[j].timestamp, readings[i].timestamp)

\* two records of one site, the later-inserted (higher id) one listed first
C7_Witness ==
    \E site \in SiteIds :
        LET readings == get_site_readings(zsets, site).readings
        IN  /\ Len(readings) >= 2
            /\ readings[1].stream_id > readings[2].stream_id
            /\ Earlier(readings[1].timestamp, readings[2].timestamp)

Running == {"loop", "claiming", "process", "ack", "sleep"}

\* C8: a failed claim is followed by a backoff (5 s after a connection error,
\* 1 s after any other exception) and a new claim; it stores and acknowledges
\* nothing; a running loop ends only by the shutdown's cancellation.
C8_Step ==
    \A c \in Consumers :
        /\ (pc[c] = "claiming" /\ pc'[c] = "sleep") =>
              /\ caught'[c] \in {"ConnectionError", "ResponseError"}
              /\ delay'[c] = IF caught'[c] = "ConnectionError" THEN 5 ELSE 1
              /\ zsets' = zsets /\ pel' = pel /\ lastDelivered' = lastDelivered
              /\ calls' = calls /\ batch' = batch
        /\ (pc[c] = "sleep" /\ pc'[c] # "sleep") => pc'[c] \in {"loop", "cancelled"}
        /\ (pc[c] = "loop" /\ pc'[c] # "loop") => pc'[c] = "claiming"
        /\ (pc[c] \in Running /\ pc'[c] \notin Running) =>
              pc'[c] = "cancelled" /\ app[c] = "serving" /\ app'[c] = "stopped"

C8_ClaimFailureBacksOff == [][C8_Step]_vars

\* one consumer backs off after a connection error, the other after another one
C8_Witness ==
    \E c, o \in Consumers :
        /\ pc[c] = "sleep" /\ caught[c] = "ConnectionError" /\ delay[c] = 5
        /\ pc[o] = "sleep" /\ caught[o] = "ResponseError" /\ delay[o] = 1

\* C9: a consumer whose group creation failed (anything but "group already
\* exists") does not leave a service that serves without a running consumer.
C9_GroupFaultAbortsStartup ==
    \A c \in Consumers : ~(pc[c] = "failed" /\ app[c] = "serving")

\* how often a zadd for message id returned
ZaddCount(id) ==
    Len(SelectSeq(calls[Harness], LAMBDA e : e.id = id /\ e.op = "zadd" /\ e.ok))

SiteKey(id) == <<"site:", stream[id].site_id, ":readings">>

T1969 == Iso(<<1969, 12, 31>>, <<23, 0, 0>>, "Z")

TimeMessages ==
    { Msg("site-001", Dec(1500, <<5>>), T1030Z),
      Msg("site-001", Dec(1500, <<5>>), T1969),
      Msg("site-001", Dec(1500, <<5>>), Raw("not-a-timestamp")),
      Msg("site-001", Dec(1500, <<5>>), Raw("")),
      [site_id |-> "site-001", device_id |-> "meter-42",
       power_reading |-> Dec(1500, <<5>>), ingested_at |-> IngestedAt] }

\* One service instance consuming entries with every kind of timestamp.
NextTimes ==
    \/ \E data \in TimeMessages : xadd(data)
    \/ \E c \in Solo : lifespan_startup(c)
    \/ \E c \in Solo, f \in Faults : ensure_consumer_group(c, f)
    \/ \E c \in Solo : claim_start(c)
    \/ \E c \in Solo, f \in Faults : xreadgroup_return(c, f)
    \/ \E c \in Solo, f \in CallFaults : process_reading(c, f)
    \/ \E c \in Solo, f \in CallFaults : xack(c, f)
    \/ \E c \in Solo : sleep_return(c)
    \/ \E c \in Solo, f \in CallFaults : lifespan_shutdown(c, f)

SpecTimes == Init /\ [][NextTimes]_vars

\* the timestamp of message id is missing, empty or not ISO-8601
TimeMalformed(id) == "timestamp" \notin DOMAIN stream[id] \/ "raw" \in DOMAIN stream[id].timestamp

StoredAtZero(id) ==
    /\ RecordsOf(id, SiteKey(id)) # {}
    /\ \A e \in RecordsAnywhere(id) : e.score = 0

\* C11: a message whose timestamp is empty, missing or not ISO-8601 is
\* processed without error, stored with score 0 and acknowledged, and the
\* site-history query lists it before every record of its site that has a
\* valid event time.
C11_MalformedTimeListedFirst ==
    \A c \in Consumers : \A id \in StreamIds :
        (HasSite(id) /\ TimeMalformed(id) /\ Completed(c, id) /\ ~RedisFault(c, id)) =>
            /\ CallsFor(c, id) = << Call("zadd", id, TRUE), Call("xack", id, TRUE) >>
            /\ StoredAtZero(id)
            /\ Acknowledged(id)
            /\ LET readings == get_site_readings(zsets, stream[id].site_id).readings
               IN  \A i, j \in 1..Len(readings) :
                      (readings[i].stream_id = id /\ IsIso(readings[j].timestamp)) => i < j

\* the part of C11 that the consumer does keep: stored at score 0 and
\* acknowledged, no error raised
C11_MalformedTimeStoredAtZero ==
    \A c \in Consumers : \A id \in StreamIds :
        (HasSite(id) /\ TimeMalformed(id) /\ Completed(c, id) /\ ~RedisFault(c, id)) =>
            /\ CallsFor(c, id) = << Call("zadd", id, TRUE), Call("xack", id, TRUE) >>
            /\ StoredAtZero(id)
            /\ Acknowledged(id)

\* ------------------------------------------------------------------------
\* Read-side API: GET /sites/{site_id}/readings
\* ------------------------------------------------------------------------
Exchange(request, redis, status, body) ==
    [request |-> request, redis |-> redis, status |-> status, body |-> body]

\* (mutant) the connection error is swallowed and an empty history is returned
get_site_readings_request_swallowing(h, site_id, fault) ==
    /\ http' = [http EXCEPT ![h] =
          IF fault = "none"
          THEN Exchange(<<"GET readings", site_id>>, fault, 200,
                        get_site_readings(zsets, site_id))
          ELSE Exchange(<<"GET readings", site_id>>, fault, 200,
                        [site_id |-> site_id, readings |-> <<>>])]
    /\ UNCHANGED <<redisVars, app, pc, batch, delay, caught, calls>>

\* the handler: zrange returns, raises redis.ConnectionError (answered 503) or
\* raises another exception (not caught: the framework answers 500)
get_site_readings_request(h, site_id, fault) ==
    /\ http' = [http EXCEPT ![h] =
          IF fault = "none"
          THEN Exchange(<<"GET readings", site_id>>, fault, 200,
                        get_site_readings(zsets, site_id))
          ELSE IF fault = "ConnectionError"
          THEN Exchange(<<"GET readings", site_id>>, fault, 503,
                        [detail |-> "Redis connection error"])
          ELSE Exchange(<<"GET readings", site_id>>, fault, 500,
                        [detail |-> "Internal Server Error"])]
    /\ UNCHANGED <<redisVars, app, pc, batch, delay, caught, calls>>

\* One service instance that consumes without faults while clients query the
\* history of the sites, the store answering or failing.
NextQuery ==
    \/ \E data \in ValidMessages \cup {NoPowerMessage} : xadd(data)
    \/ \E c \in Solo : lifespan_startup(c)
    \/ \E c \in Solo : ensure_consumer_group(c, "none")
    \/ \E c \in Solo : claim_start(c)
    \/ \E c \in Solo : xreadgroup_return(c, "none")
    \/ \E c \in Solo : process_reading(c, "none")
    \/ \E c \in Solo : xack(c, "none")
    \/ \E h \in Clients, site \in SiteIds, f \in Faults :
          get_site_readings_request(h, site, f)

SpecQuery == Init /\ [][NextQuery]_vars

IsReadingsExchange(x) == x.request[1] = "GET readings"

\* C12: a history query answered while the store raises a connection error
\* is a 503 without a readings list; a query for a site without records is a
\* 200 with {site_id, readings: []}; an empty list is only ever returned when
\* the store answered and holds nothing for the site; the query leaves the
\* store as it was.
C12_Step ==
    \A h \in Clients :
        (http'[h] # http[h] /\ IsReadingsExchange(http'[h])) =>
            LET x    == http'[h]
                site == x.request[2]
                none == zsets[<<"site:", site, ":readings">>] = {}
            IN  /\ x.redis = "ConnectionError" =>
                      x.status = 503 /\ "readings" \notin DOMAIN x.body
                /\ (x.redis = "none" /\ none) =>
                      x.status = 200 /\ x.body = [site_id |-> site, readings |-> <<>>]
                /\ (x.status = 200 /\ x.body.readings = <<>>) =>
                      x.redis = "none" /\ none
                /\ redisVars' = redisVars

C12_UnreachableIsNotEmpty == [][C12_Step]_vars

\* one client was told the store is unavailable for a site that has records,
\* another got the empty history of a site that has none
C12_Witness ==
    \E h, o \in Clients :
        /\ IsReadingsExchange(http[h]) /\ http[h].status = 503
        /\ zsets[<<"site:", http[h].request[2], ":readings">>] # {}
        /\ IsReadingsExchange(http[o]) /\ http[o].status = 200
        /\ http[o].body.readings = <<>>
        /\ zsets[<<"site:", http[o].request[2], ":readings">>] = {}

\* ------------------------------------------------------------------------
\* Ingestion API: POST /readings
\* ------------------------------------------------------------------------
\* a JSON number of the request body, in hundredths
Num(h) == [num |-> h]

\* str(float) of a value with two decimals at most: "1500.5", "2000.0", "0.25"
str_float(x) ==
    LET h == x.num
        c == h % 100
    IN  Dec(h \div 100,
            IF c = 0 THEN <<0>>
            ELSE IF c % 10 = 0 THEN <<c \div 10>>
            ELSE <<c \div 10, c % 10>>)

\* validate_timestamp: fromisoformat(v.replace("Z", "+00:00")) does not raise
validate_timestamp(v) ==
    /\ "date" \in DOMAIN v
    /\ (IF v.tz = "Z" THEN "+00:00" ELSE v.tz) \in {"", "+00:00", "+01:00", "-01:00"}

\* (mutant) the schema without ge=0 on power_reading
EnergyReading_without_ge(body) ==
    /\ "site_id" \in DOMAIN body /\ body.site_id # ""
    /\ "device_id" \in DOMAIN body /\ body.device_id # ""
    /\ "power_reading" \in DOMAIN body /\ "num" \in DOMAIN body.power_reading
    /\ "timestamp" \in DOMAIN body /\ validate_timestamp(body.timestamp)

\* the request body validates against the schema
EnergyReading(body) ==
    /\ "site_id" \in DOMAIN body /\ body.site_id # ""
    /\ "device_id" \in DOMAIN body /\ body.device_id # ""
    /\ "power_reading" \in DOMAIN body /\ "num" \in DOMAIN body.power_reading
    /\ body.power_reading.num >= 0
    /\ "timestamp" \in DOMAIN body /\ validate_timestamp(body.timestamp)

stream_data(reading) ==
    [site_id       |-> reading.site_id,
     device_id     |-> reading.device_id,
     power_reading |-> str_float(reading.power_reading),
     timestamp     |-> reading.timestamp,
     ingested_at   |-> IngestedAt]

Body(site, device, power, ts) ==
    [site_id |-> site, device_id |-> device, power_reading |-> power, timestamp |-> ts]

\* request bodies: the tests' VALID_READING and its variations
VALID_READING == Body("site-001", "meter-42", Num(150050), T1030Z)

Requests ==
    { VALID_READING,
      Body("site-002", "meter-7", Num(0), T1030Utc),
      Body("", "meter-42", Num(150050), T1030Z),
      Body("site-001", "", Num(150050), T1030Z),
      [site_id |-> "site-001", device_id |-> "meter-42"],
      Body("site-001", "meter-42", Num(-10000), T1030Z),
      Body("site-001", "meter-42", Raw("abc"), T1030Z),
      Body("site-001", "meter-42", Num(150050), Raw("not-a-timestamp")) }

\* the handler: the framework rejects an invalid body with 422 before the
\* handler runs; xadd returns the new entry's id, raises redis.ConnectionError
\* (503) or raises another exception (500)
ingest_reading(h, body, fault) ==
    /\ IF ~EnergyReading(body)
       THEN /\ fault = "none"
            /\ http' = [http EXCEPT ![h] =
                  Exchange(<<"POST readings", body>>, "not called", 422,
                           [detail |-> "validation error"])]
            /\ UNCHANGED <<stream, streamExists>>
       ELSE IF fault = "none"
       THEN /\ Len(stream) < MaxMsgs
            /\ stream' = Append(stream, stream_data(body))
            /\ streamExists' = TRUE
            /\ http' = [http EXCEPT ![h] =
                  Exchange(<<"POST readings", body>>, fault, 201,
                           [status |-> "accepted", stream_id |-> Len(stream) + 1])]
       ELSE /\ http' = [http EXCEPT ![h] =
                  Exchange(<<"POST readings", body>>, fault,
                           IF fault = "ConnectionError" THEN 503 ELSE 500,
                           [detail |-> IF fault = "ConnectionError"
                                       THEN "Redis connection error"
                                       ELSE "Failed to ingest reading"])]
            /\ UNCHANGED <<stream, streamExists>>
    /\ UNCHANGED <<groupExists, lastDelivered, pel, zsets,
                   app, pc, batch, delay, caught, calls>>

\* Clients posting readings; one service instance consumes what was appended.
NextIngest ==
    \/ \E h \in Clients, body \in Requests, f \in Faults : ingest_reading(h, body, f)
    \/ \E c \in Solo : lifespan_startup(c)
    \/ \E c \in Solo : ensure_consumer_group(c, "none")
    \/ \E c \in Solo : claim_start(c)
    \/ \E c \in Solo : xreadgroup_return(c, "none")
    \/ \E c \in Solo : process_reading(c, "none")
    \/ \E c \in Solo : xack(c, "none")

SpecIngest == Init /\ [][NextIngest]_vars

IsIngestExchange(x) == x.request[1] = "POST readings"

\* what the log may hold: site and device named, a decimal power that is not
\* negative, an ISO-8601 event time
WellFormedEntry(e) ==
    /\ {"site_id", "device_id", "power_reading", "timestamp"} \subseteq DOMAIN e
    /\ e.site_id # "" /\ e.device_id # ""
    /\ "int" \in DOMAIN e.power_reading /\ Hundredths(e.power_reading) >= 0
    /\ IsIso(e.timestamp)

\* what a request must look like to be accepted
WellFormedRequest(b) ==
    /\ {"site_id", "device_id", "power_reading", "timestamp"} \subseteq DOMAIN b
    /\ b.site_id # "" /\ b.device_id # ""
    /\ "num" \in DOMAIN b.power_reading /\ b.power_reading.num >= 0
    /\ IsIso(b.timestamp)

\* the entry carries the request's fields
Carries(e, b) ==
    /\ e.site_id = b.site_id /\ e.device_id = b.device_id
    /\ e.timestamp = b.timestamp
    /\ Hundredths(e.power_reading) = b.power_reading.num

C13_Step ==
    \A h \in Clients :
        (http'[h] # http[h] /\ IsIngestExchange(http'[h])) =>
            LET x == http'[h]
                b == x.request[2]
            IN  /\ ~WellFormedRequest(b) => x.status = 422 /\ stream' = stream
                /\ x.status = 201 =>
                      /\ WellFormedRequest(b)
                      /\ Len(stream') = Len(stream) + 1
                      /\ SubSeq(stream', 1, Len(stream)) = stream
                      /\ Carries(stream'[Len(stream')], b)
                      /\ x.body = [status |-> "accepted", stream_id |-> Len(stream')]
                /\ x.status # 201 => stream' = stream
                /\ x.redis = "ConnectionError" =>
                      x.status = 503 /\ "stream_id" \notin DOMAIN x.body

\* C13: every message the ingestion endpoint appended has a non-empty
\* site_id, a non-empty device_id, a power reading >= 0 and an ISO-8601
\* timestamp; an invalid request is answered 422 and appends nothing, an
\* accepted one appends exactly one message (the request's fields) and returns
\* the id the log gave it, and a connection error on append is answered 503
\* with nothing accepted.
C13_OnlyValidReadingsAppended ==
    /\ [](\A id \in 1..Len(stream) : WellFormedEntry(stream[id]))
    /\ [][C13_Step]_vars

\* one client had a reading accepted as the second message of the log, the
\* other had a negative reading rejected
C13_Witness ==
    \E h, o \in Clients :
        /\ IsIngestExchange(http[h]) /\ http[h].status = 201
        /\ http[h].body.stream_id = 2 /\ Len(stream) = 2
        /\ IsIngestExchange(http[o]) /\ http[o].status = 422
        /\ "power_reading" \in DOMAIN http[o].request[2]
        /\ "num" \in DOMAIN http[o].request[2].power_reading
        /\ http[o].request[2].power_reading.num < 0

\* C14: a consumer handles the messages delivered to it in delivery order
\* (ascending id, within a batch and across batches): what it did for an
\* earlier message (store, acknowledge, or the failure) comes before anything
\* it does for a later one, and a message still waiting in its batch is later
\* than every message it has touched.
C14_InDeliveryOrder ==
    \A c \in Consumers :
        /\ \A k, l \in 1..Len(calls[c]) :
              k < l => calls[c][k].id <= calls[c][l].id
        /\ \A k, l \in 1..Len(batch[c]) :
              k < l => batch[c][k][1] < batch[c][l][1]
        /\ \A k \in 1..Len(calls[c]) : \A l \in 1..Len(batch[c]) :
              /\ calls[c][k].id <= batch[c][l][1]
              /\ (l > 1 \/ pc[c] = "process") => calls[c][k].id < batch[c][l][1]

\* two messages of one batch are through, and their consumer also went
\* through both
C14_Witness ==
    \E c \in Consumers :
        /\ Len(stream) = 2 /\ Completed(c, 1) /\ Completed(c, 2)
        /\ CallsFor(c, 1) = << Call("zadd", 1, TRUE), Call("xack", 1, TRUE) >>
        /\ CallsFor(c, 2) = << Call("zadd", 2, TRUE), Call("xack", 2, TRUE) >>

\* consumer c just logged a failed call (float, zadd or xack raised)
FaultLogged(c) ==
    /\ Len(calls'[c]) = Len(calls[c]) + 1
    /\ ~calls'[c][Len(calls'[c])].ok

C15_Step ==
    \A c \in Consumers :
        FaultLogged(c) =>
            /\ batch[c] # <<>>
            /\ calls'[c][Len(calls'[c])].id = batch[c][1][1]
            /\ batch'[c] = Tail(batch[c])
            /\ pc'[c] = IF Tail(batch[c]) # <<>> THEN "process" ELSE "loop"
            /\ caught'[c] = caught[c] /\ delay'[c] = delay[c] /\ app'[c] = app[c]

\* C15: a fault while one message is processed (float, zadd or xack raising)
\* is not escalated: the consumer goes on with the next message of the batch
\* (or with the next claim when it was the last), neither backing off nor
\* ending; a batch is exhausted before the next claim; and of the messages a
\* consumer is through with, exactly the failed ones are still pending.
C15_FaultNotEscalated ==
    /\ [][C15_Step]_vars
    /\ [](\A c \in Consumers :
            /\ pc[c] \in {"loop", "claiming", "sleep"} => batch[c] = <<>>
            /\ \A id \in StreamIds :
                  Completed(c, id) =>
                      /\ NoError(c, id) => Acknowledged(id)
                      /\ ~NoError(c, id) => Pending(id))

\* the first message failed and is pending, the second one was stored and
\* acknowledged by the same consumer, which is still running
C15_Witness ==
    \E c \in Consumers :
        /\ Len(stream) = 2 /\ Completed(c, 1) /\ Completed(c, 2)
        /\ ~NoError(c, 1) /\ Pending(1)
        /\ CallsFor(c, 2) = << Call("zadd", 2, TRUE), Call("xack", 2, TRUE) >>
        /\ Acknowledged(2)
        /\ pc[c] \in Running

\* some consumer's zadd for message id returned
Stored(id) ==
    \E c \in Consumers : \E k \in 1..Len(calls[c]) :
        calls[c][k] = Call("zadd", id, TRUE)

\* the index a site has when exactly the messages of ids were stored: one
\* record per message, at the score of its event time
IndexOf(key, ids) ==
    {[member |-> json_dumps(ReadingOf(id, stream[id])),
      score  |-> timestamp_to_score(Get(stream[id], "timestamp", Raw("")))] :
        id \in {i \in ids : HasSite(i) /\ SiteKey(i) = key}}

\* C16: with several consumers of one group, every site index is determined
\* by the set of messages stored (their records at their event-time scores),
\* whoever stored them and in whatever order; no message is handled by two
\* consumers, and a message is acknowledged only by the consumer it was
\* delivered to.
C16_IndexIndependentOfConsumers ==
    /\ \A key \in Keys : zsets[key] = IndexOf(key, {id \in StreamIds : Stored(id)})
    /\ \A c \in Consumers : \A id \in StreamIds :
          CallsFor(c, id) # <<>> =>
              /\ \A o \in Consumers \ {c} : CallsFor(o, id) = <<>>
              /\ Pending(id) => pel[id].consumer = c

\* two consumers stored one message each into the same site's index, the
\* later event time first, and the history lists the earlier one first
C16_Witness ==
    \E c, o \in Consumers :
        /\ c # o /\ Len(stream) = 2
        /\ CallsFor(c, 1) = << Call("zadd", 1, TRUE), Call("xack", 1, TRUE) >>
        /\ CallsFor(o, 2) = << Call("zadd", 2, TRUE), Call("xack", 2, TRUE) >>
        /\ HasSite(1) /\ HasSite(2) /\ SiteKey(1) = SiteKey(2)
        /\ LET readings == get_site_readings(zsets, stream[1].site_id).readings
           IN  Len(readings) = 2 /\ readings[1].stream_id = 2

\* message id was handed to a consumer by a claim
HandedOut(id) ==
    \E c \in Consumers : id \in BatchIds(c) \/ CallsFor(c, id) # <<>>

C17_Step ==
    /\ (~groupExists /\ groupExists') =>
          /\ lastDelivered' = 0 /\ pel' = <<>>
          /\ streamExists' /\ stream' = stream
    /\ lastDelivered' # lastDelivered =>
          /\ groupExists
          /\ lastDelivered' = Min(Len(stream), lastDelivered + COUNT)
          /\ \E c \in Consumers :
                /\ Len(batch'[c]) = lastDelivered' - lastDelivered
                /\ \A k \in 1..Len(batch'[c]) :
                      batch'[c][k] = <<lastDelivered + k, stream[lastDelivered + k]>>

\* C17: the group is created at the origin of the log: creation leaves the
\* log's entries alone (creating the log empty when it did not exist) and
\* starts the group before the first entry, a claim delivers every entry
\* after the last delivered one, and so every message that was on the log
\* before the group existed is handed to a consumer by a later claim.
C17_FreshGroupStartsAtOrigin ==
    /\ [][C17_Step]_vars
    /\ \A id \in 1..MaxMsgs :
          (id \in StreamIds /\ ~groupExists) ~> HandedOut(id)

\* the first claim of the group delivered the whole log at once
C17_Witness ==
    \E c \in Consumers :
        /\ Len(stream) = MaxMsgs /\ lastDelivered = MaxMsgs
        /\ Len(batch[c]) = MaxMsgs /\ batch[c][1][1] = 1
        /\ \A o \in Consumers : calls[o] = <<>>

\* consumer c takes a step of handling the message at the head of its batch
Handles(c) ==
    /\ pc[c] \in {"process", "ack"}
    /\ pc'[c] # pc[c] \/ batch'[c] # batch[c] \/ calls'[c] # calls[c]

C18_Step ==
    \A c \in Consumers :
        Handles(c) =>
            LET id == batch[c][1][1]
            IN  /\ stream' = stream /\ streamExists' = streamExists
                /\ groupExists' = groupExists /\ lastDelivered' = lastDelivered
                /\ \A key \in Keys :
                      /\ zsets[key] \subseteq zsets'[key]
                      /\ zsets'[key] \ zsets[key] # {} =>
                            HasSite(id) /\ key = SiteKey(id)
                      /\ \A e \in zsets'[key] \ zsets[key] :
                            json_loads(e.member).stream_id = id
                /\ \A i \in (DOMAIN pel \cup DOMAIN pel') \ {id} :
                      i \in DOMAIN pel /\ i \in DOMAIN pel' /\ pel'[i] = pel[i]
                /\ DOMAIN pel' \subseteq DOMAIN pel

\* C18: handling a message (process_reading and the acknowledge) changes at
\* most the sorted set of the message's own site, by adding that message's
\* record, and the pending entry of that message; the other sites' sorted
\* sets, the records the site already had, the stream with its group position
\* and every other pending entry stay as they were.
C18_ProcessingFrame == [][C18_Step]_vars

\* a message was stored and acknowledged while a message of another site had
\* its record stored and was still pending
C18_Witness ==
    \E id, other \in StreamIds :
        /\ HasSite(id) /\ HasSite(other) /\ SiteKey(id) # SiteKey(other)
        /\ Acknowledged(id) /\ RecordsOf(id, SiteKey(id)) # {}
        /\ Pending(other) /\ RecordsOf(other, SiteKey(other)) # {}
        /\ \E c \in Consumers : Completed(c, id) /\ Completed(c, other)

====
